---- MODULE Spec2Model ----
(***************************************************************************)
(* A model of internal/npm_install/generate_build_file.js: the script that *)
(* walks node_modules, flattens every package's transitive dependencies    *)
(* and writes BUILD.bazel.                                                  *)
(*                                                                         *)
(* A path is the list of its segments and a string the script looks into   *)
(* is the sequence of its characters, so that split, join, startsWith,     *)
(* replace and the regular expressions of the script are computed as the   *)
(* script computes them.  A package object is identified by its index in   *)
(* the list findPackages returns.                                          *)
(***************************************************************************)
EXTENDS Naturals, Sequences, FiniteSets

VARIABLES
  fs,             \* the install tree: directory of a package.json |-> its parsed content
  pc,             \* main's position: "start", "flatten", "generate", "done", "failed"
  pkgs,           \* main's pkgs: the list findPackages returned
  scopes,         \* main's scopes: the list findScopes returned
  pkgsMap,        \* main's pkgsMap: _dir |-> index of the package in pkgs
  _dependencies,  \* pkg._dependencies of every package, as indices into pkgs
  cur,            \* the index of the package pkgs.forEach is flattening
  stack,          \* the flattenDependencies invocations in progress
  calls,          \* number of flattenDependencies invocations made for pkgs[cur]
  selected,       \* what every targetDep lookup of findDeps returned so far
  error,          \* the uncaught Error, once thrown
  output          \* the content of the file BUILD.bazel

vars == <<fs, pc, pkgs, scopes, pkgsMap, _dependencies, cur, stack, calls,
          selected, error, output>>

(***************************************************************************)
(* Bounds of the model.                                                    *)
(***************************************************************************)
\* Declared dependency entries (one key of one mapping of one package.json)
\* in a whole install tree of the specification Spec.
MaxDeps == 2
\* The same, in an install tree of the specification SpecEmit.
MaxEmitDeps == 1

(***************************************************************************)
(* Strings and paths.  A path, and a package name such as @s/a, is held as *)
(* the list of its segments, the strings between its '/' characters:       *)
(* path.split('/') is then the list itself, and path.posix.join            *)
(* concatenates the lists and normalizes.  Where the script looks into a   *)
(* string (startsWith, a template literal, Object.keys) the model computes *)
(* on Text(path), the sequence of its characters.                          *)
(***************************************************************************)
Slash == "/"
NodeModules == "node_modules"
PackageJson == "package.json"
FilesSuffix == <<"_","_","f","i","l","e","s">>

\* The characters of every segment that occurs.
Spelling ==
  [ segment \in {"node_modules", "package.json", ".bin", ".yarn-integrity",
                 "1", "@s", "@sx", "a", "b", "c", "z"} |->
    CASE segment = "node_modules" -> <<"n","o","d","e","_","m","o","d","u","l","e","s">>
      [] segment = "package.json" -> <<"p","a","c","k","a","g","e",".","j","s","o","n">>
      [] segment = ".bin" -> <<".","b","i","n">>
      [] segment = ".yarn-integrity" ->
           <<".","y","a","r","n","-","i","n","t","e","g","r","i","t","y">>
      [] segment = "@s" -> <<"@","s">>
      [] segment = "@sx" -> <<"@","s","x">>
      [] OTHER -> <<segment>> ]

\* s.startsWith(prefix)
StartsWith(s, prefix) ==
  /\ Len(prefix) <= Len(s)
  /\ SubSeq(s, 1, Len(prefix)) = prefix

\* segments.join('/'): the characters of a path
RECURSIVE Text(_)
Text(segments) ==
  IF segments = <<>> THEN <<>>
  ELSE IF Len(segments) = 1 THEN Spelling[segments[1]]
  ELSE Spelling[segments[1]] \o <<Slash>> \o Text(Tail(segments))

\* path.posix.normalize on the segments of a relative path: empty and "."
\* segments are dropped and ".." removes the segment before it
RECURSIVE NormalizeSegments(_, _)
NormalizeSegments(segments, acc) ==
  IF segments = <<>> THEN acc
  ELSE LET h == Head(segments)
           t == Tail(segments)
       IN  IF h = "" \/ h = "." THEN NormalizeSegments(t, acc)
           ELSE IF h = ".." /\ acc # <<>> /\ acc[Len(acc)] # ".."
                THEN NormalizeSegments(t, SubSeq(acc, 1, Len(acc) - 1))
                ELSE NormalizeSegments(t, Append(acc, h))

\* path.posix.join(first, second), as segments
PathJoin(first, second) ==
  LET norm == NormalizeSegments(first \o second, <<>>)
  IN  IF norm = <<>> THEN <<".">> ELSE norm

\* p.replace(/^node_modules\//, '')
StripNodeModules(p) ==
  IF Len(p) > 1 /\ p[1] = NodeModules THEN Tail(p) ELSE p

\* p.match(/\/node_modules\//): a segment node_modules with a '/' on both sides
MatchesNodeModules(p) ==
  \E k \in 2..(Len(p) - 1) : p[k] = NodeModules

\* the elements of a sequence
Range(s) == {s[k] : k \in 1..Len(s)}

(***************************************************************************)
(* Object.keys of an object JSON.parse built: the keys that are canonical  *)
(* array indices come first, in ascending numeric order, and then the      *)
(* other keys in the order the JSON text declares them.                    *)
(***************************************************************************)
Digits == <<"0","1","2","3","4","5","6","7","8","9">>

IsDigit(c) == \E k \in 1..Len(Digits) : Digits[k] = c

DigitValue(c) == (CHOOSE k \in 1..Len(Digits) : Digits[k] = c) - 1

\* 2^32 - 1, the first number that is no array index
IndexLimit == <<"4","2","9","4","9","6","7","2","9","5">>

\* x < y for two numbers written in decimal without leading zeros
NumericLess(x, y) ==
  \/ Len(x) < Len(y)
  \/ /\ Len(x) = Len(y)
     /\ \E k \in 1..Len(x) :
          /\ SubSeq(x, 1, k - 1) = SubSeq(y, 1, k - 1)
          /\ DigitValue(x[k]) < DigitValue(y[k])

\* a canonical numeric string below 2^32 - 1
IsArrayIndex(key) ==
  /\ key # <<>>
  /\ \A k \in 1..Len(key) : IsDigit(key[k])
  /\ (key[1] # "0" \/ Len(key) = 1)
  /\ NumericLess(key, IndexLimit)

\* The keys, all of them array indices, in ascending numeric order.
RECURSIVE AscendingIndices(_)
AscendingIndices(keys) ==
  IF keys = <<>> THEN <<>>
  ELSE LET least == CHOOSE k \in 1..Len(keys) :
                      \A j \in 1..Len(keys) : ~NumericLess(Text(keys[j]), Text(keys[k]))
       IN  <<keys[least]>> \o
           AscendingIndices(SubSeq(keys, 1, least - 1) \o SubSeq(keys, least + 1, Len(keys)))

\* The keys are held as names: the key itself is Text(key).
ObjectKeys(declared) ==
  AscendingIndices(SelectSeq(declared, LAMBDA key : IsArrayIndex(Text(key)))) \o
  SelectSeq(declared, LAMBDA key : ~IsArrayIndex(Text(key)))

(***************************************************************************)
(* The file system.  fs maps every directory that holds a package.json to  *)
(* the parsed content of that file; the directories above them exist, and  *)
(* so do node_modules/.bin (a directory that is no package) and            *)
(* node_modules/.yarn-integrity (a file).  A package.json is a record      *)
(*   name: the declared name;                                              *)
(*   dependencies, peerDependencies, optionalDependencies: the keys of     *)
(*     each mapping in the order the JSON text declares them;              *)
(*   bin: [type, path, keys, paths], type being the typeof of the field,   *)
(*     path its characters, keys and paths its entries in declared order.  *)
(***************************************************************************)
DotBin == ".bin"
YarnIntegrity == ".yarn-integrity"

ExtraDirs == {<<NodeModules, DotBin>>}
ExtraFiles == {<<NodeModules, YarnIntegrity>>}

\* fs.statSync(p).isDirectory()
IsDirectory(tree, p) ==
  \E q \in (DOMAIN tree) \cup ExtraDirs : StartsWith(q, p)

\* fs.statSync(p).isFile()
IsFile(tree, p) ==
  \/ p \in ExtraFiles
  \/ /\ Len(p) > 1
     /\ p[Len(p)] = PackageJson
     /\ SubSeq(p, 1, Len(p) - 1) \in DOMAIN tree

\* fs.existsSync(p)
ExistsSync(tree, p) == IsDirectory(tree, p) \/ IsFile(tree, p)

\* The names a directory listing may hold, in the order readdirSync yields them.
ReaddirOrder ==
  <<DotBin, YarnIntegrity, "1", "@s", "@sx", "a", "b", "c", NodeModules, PackageJson>>

\* fs.readdirSync(p)
ReaddirSync(tree, p) ==
  SelectSeq(ReaddirOrder, LAMBDA f : ExistsSync(tree, Append(p, f)))

isPackage(tree, p) ==
  LET packageJson == PathJoin(p, <<PackageJson>>)
  IN  IsDirectory(tree, p) /\ ExistsSync(tree, packageJson) /\ IsFile(tree, packageJson)

\* path.replace(/\\/g, '/') of cleanupBinPath
BackslashesToSlashes(path) ==
  [k \in 1..Len(path) |-> IF path[k] = "\\" THEN Slash ELSE path[k]]

cleanupBinPath(path) ==
  LET p == BackslashesToSlashes(path)
  IN  IF StartsWith(p, <<".", Slash>>) THEN SubSeq(p, 3, Len(p)) ELSE p

\* The entries parsePackage puts into pkg._executables, in insertion order.
Executables(dir, isNested, bin) ==
  IF isNested THEN <<>>
  ELSE IF bin.type = "array" THEN <<>>
  ELSE IF bin.type = "string"
       THEN <<[name |-> Text(dir), path |-> cleanupBinPath(bin.path)]>>
  ELSE IF bin.type = "object"
       THEN LET keys == ObjectKeys(bin.keys)
            IN  [k \in 1..Len(keys) |->
                   [name |-> Text(keys[k]),
                    path |-> cleanupBinPath(
                      bin.paths[CHOOSE j \in 1..Len(bin.keys) : bin.keys[j] = keys[k]])]]
       ELSE <<>>

parsePackage(tree, p) ==
  LET json == tree[p]
      dir == StripNodeModules(p)
      isNested == MatchesNodeModules(p)
  IN  [ name |-> json.name,
        dependencies |-> json.dependencies,
        peerDependencies |-> json.peerDependencies,
        optionalDependencies |-> json.optionalDependencies,
        bin |-> json.bin,
        _dir |-> dir,
        _isNested |-> isNested,
        _executables |-> Executables(dir, isNested, json.bin) ]

\* f.startsWith('@')
IsScopeName(f) == StartsWith(Spelling[f], <<"@">>)

RECURSIVE findPackages(_, _), PushPackages(_, _), PushScopes(_, _)
\* packages.forEach(f => result.push(parsePackage(f), ...findPackages(f/node_modules)))
PushPackages(tree, packages) ==
  IF packages = <<>> THEN <<>>
  ELSE <<parsePackage(tree, Head(packages))>>
       \o findPackages(tree, PathJoin(Head(packages), <<NodeModules>>))
       \o PushPackages(tree, Tail(packages))

\* scopes.forEach(f => result.push(...findPackages(f)))
PushScopes(tree, scopeDirs) ==
  IF scopeDirs = <<>> THEN <<>>
  ELSE findPackages(tree, Head(scopeDirs)) \o PushScopes(tree, Tail(scopeDirs))

\* listing.filter(f => f.startsWith('@')).map(f => path.posix.join(p, f))
\*        .filter(f => fs.statSync(f).isDirectory())
ScopeDirs(tree, p, listing) ==
  LET scoped == SelectSeq(listing, IsScopeName)
      joined == [k \in 1..Len(scoped) |-> PathJoin(p, <<scoped[k]>>)]
  IN  SelectSeq(joined, LAMBDA f : IsDirectory(tree, f))

findPackages(tree, p) ==
  IF ~ExistsSync(tree, p) \/ ~IsDirectory(tree, p) THEN <<>>
  ELSE LET listing == ReaddirSync(tree, p)
           plain == SelectSeq(listing, LAMBDA f : ~IsScopeName(f))
           joined == [k \in 1..Len(plain) |-> PathJoin(p, <<plain[k]>>)]
           packages == SelectSeq(joined, LAMBDA f : isPackage(tree, f))
       IN  PushPackages(tree, packages) \o PushScopes(tree, ScopeDirs(tree, p, listing))

findScopes(tree) ==
  LET p == <<NodeModules>>
  IN  IF ~ExistsSync(tree, p) \/ ~IsDirectory(tree, p) THEN <<>>
      ELSE LET dirs == ScopeDirs(tree, p, ReaddirSync(tree, p))
           IN  [k \in 1..Len(dirs) |-> StripNodeModules(dirs[k])]

\* pkgs.forEach(pkg => pkgsMap.set(pkg._dir, pkg))
BuildPkgsMap(list) ==
  [dir \in {list[k]._dir : k \in 1..Len(list)} |->
     CHOOSE k \in 1..Len(list) :
       list[k]._dir = dir /\ \A j \in (k + 1)..Len(list) : list[j]._dir # dir]

(***************************************************************************)
(* flattenDependencies.  An invocation in progress is a frame              *)
(*   dep: the package being expanded (0 for the callback of pkgs.forEach   *)
(*        in main, which makes the outermost invocation),                  *)
(*   stage: how many of the three findDeps calls have been started,        *)
(*   pending: the packages the current findDeps has still to recurse into. *)
(***************************************************************************)
NoError == [thrown |-> FALSE, targetDep |-> <<>>, of |-> <<>>]

\* A check that recognises only the package the flattening started from.
OnlyRootChecked(flattened, dep) == flattened # <<>> /\ flattened[1] = dep

\* pkg._dependencies.indexOf(dep) !== -1
AlreadyFlattened(flattened, dep) == \E k \in 1..Len(flattened) : flattened[k] = dep

\* The three calls with peerDependencies left out.
TargetDepsWithoutPeers(package, stage) ==
  IF stage = 1 THEN package.dependencies
  ELSE IF stage = 2 THEN <<>>
  ELSE package.optionalDependencies

\* The three calls with peerDependencies walked before dependencies.
TargetDepsPeersFirst(package, stage) ==
  IF stage = 1 THEN package.peerDependencies
  ELSE IF stage = 2 THEN package.dependencies
  ELSE package.optionalDependencies

\* The mapping the stage-th findDeps call is given.
TargetDeps(package, stage) ==
  IF stage = 1 THEN package.dependencies
  ELSE IF stage = 2 THEN package.peerDependencies
  ELSE package.optionalDependencies

\* Every mapping treated as required, and every mapping treated as optional.
RequiredAlways(stage) == stage \in 1..3
RequiredNever(stage) == stage \notin 1..3

\* The `required` argument of the stage-th findDeps call.
Required(stage) == stage = 1 \/ stage = 2

\* The while loop: the nearest directory <dirSegments...>/node_modules/<targetDep>
\* that is in pkgsMap, <<>> when the segments run out.
RECURSIVE NestedMatch(_, _, _)
NestedMatch(dirSegments, targetDep, map) ==
  IF dirSegments = <<>> THEN <<>>
  ELSE LET maybe == PathJoin(dirSegments, <<NodeModules>> \o targetDep)
       IN  IF maybe \in DOMAIN map THEN maybe
           ELSE NestedMatch(SubSeq(dirSegments, 1, Len(dirSegments) - 1), targetDep, map)

\* A lookup that asks the root of node_modules first.
FindDepRootFirst(dir, targetDep, map) ==
  LET nested == NestedMatch(dir, targetDep, map)
  IN  IF targetDep \in DOMAIN map THEN map[targetDep]
      ELSE IF nested # <<>> THEN map[nested]
      ELSE 0

\* A lookup that takes a nested copy of targetDep wherever it is installed.
FindDepAnywhere(dir, targetDep, map) ==
  LET copies == {p \in DOMAIN map :
                   /\ Len(p) > Len(targetDep) + 1
                   /\ SubSeq(p, Len(p) - Len(targetDep), Len(p)) = <<NodeModules>> \o targetDep}
  IN  IF copies # {} THEN map[CHOOSE p \in copies : TRUE]
      ELSE IF targetDep \in DOMAIN map THEN map[targetDep]
      ELSE 0

\* What the lookup of one targetDep finds: a package index, or 0 for
\* "dependency not found".
FindDep(dir, targetDep, map) ==
  LET nested == NestedMatch(dir, targetDep, map)
  IN  IF nested # <<>> THEN map[nested]
      ELSE IF targetDep \in DOMAIN map THEN map[targetDep]
      ELSE 0

\* .filter(dep => !!dep)
FilterFound(found) == SelectSeq(found, LAMBDA d : d # 0)

\* The position of the first key that was not found, 0 when all were.
FirstMissing(found) ==
  IF \A k \in 1..Len(found) : found[k] # 0 THEN 0
  ELSE CHOOSE k \in 1..Len(found) : found[k] = 0 /\ \A j \in 1..(k - 1) : found[j] # 0

\* What a findDeps call comes to before it recurses, the lookup of the
\* thrownAt-th key having thrown (none when thrownAt = 0):
\*   error: the Error thrown; pending: the packages to recurse into;
\*   selected: what the lookups that returned have returned.
LookedUp(dep, dir, keys, found, thrownAt) ==
  [ error |-> IF thrownAt = 0 THEN NoError
              ELSE [thrown |-> TRUE, targetDep |-> keys[thrownAt], of |-> dir],
    pending |-> IF thrownAt = 0 THEN FilterFound(found) ELSE <<>>,
    selected |-> {[from |-> dep, targetDep |-> keys[k], to |-> found[k]] :
                    k \in 1..(IF thrownAt = 0 THEN Len(keys) ELSE thrownAt - 1)} ]

\* The lookups of one findDeps call, over the keys in Object.keys order.
LookUpAll(map, dep, dir, keys, required) ==
  LookedUp(dep, dir, keys,
           [k \in 1..Len(keys) |-> FindDep(dir, keys[k], map)] \o <<>>,
           IF required
           THEN FirstMissing([k \in 1..Len(keys) |-> FindDep(dir, keys[k], map)])
           ELSE 0)

\* One findDeps call up to its recursion: every key is looked up in
\* Object.keys order; the first required key that is not found throws.
findDeps(list, map, dep, stage) ==
  LookUpAll(map, dep, list[dep]._dir, ObjectKeys(TargetDeps(list[dep], stage)),
            Required(stage))

\* flattenDependencies as far as the next invocation of itself.
Settled(st, sel, err) == [stack |-> st, selected |-> sel, error |-> err]

\* The code that runs from the end of one flattenDependencies invocation to
\* the start of the next: finished findDeps calls return, the next findDeps
\* call of a frame starts, finished invocations return.
RECURSIVE Resume(_, _, _, _), ResumeFrame(_, _, _, _, _), ResumeFindDeps(_, _, _, _, _, _)
Resume(list, map, st, sel) ==
  IF st = <<>> THEN Settled(st, sel, NoError)
  ELSE ResumeFrame(list, map, st, sel, st[Len(st)])

\* top, the innermost frame: it recurses, or calls findDeps again, or returns.
ResumeFrame(list, map, st, sel, top) ==
  IF top.pending # <<>> THEN Settled(st, sel, NoError)
  ELSE IF top.stage < 3
       THEN ResumeFindDeps(list, map, st, sel, top,
                           findDeps(list, map, top.dep, top.stage + 1))
       ELSE Resume(list, map, SubSeq(st, 1, Len(st) - 1), sel)

\* found, what the next findDeps call of the innermost frame comes to.
ResumeFindDeps(list, map, st, sel, top, found) ==
  IF found.error.thrown THEN Settled(st, sel \cup found.selected, found.error)
  ELSE Resume(list, map,
              Append(SubSeq(st, 1, Len(st) - 1),
                     [dep |-> top.dep, stage |-> top.stage + 1, pending |-> found.pending]),
              sel \cup found.selected)

\* pkgs.forEach(pkg => flattenDependencies(pkg, pkg, pkgsMap)): the callback for pkgs[k]
ForEachFrame(k) == [dep |-> 0, stage |-> 3, pending |-> <<k>>]

\* The invocation flattenDependencies(pkg, dep, pkgsMap) accumulating into
\* `flattened`, the frames in `callers` waiting for it, and the code up to
\* the next invocation.
flattenDependencies(list, map, flattened, dep, callers, sel) ==
  IF AlreadyFlattened(flattened, dep)
  THEN [flattened |-> flattened, resumed |-> Resume(list, map, callers, sel)]
  ELSE [flattened |-> Append(flattened, dep),
        resumed |-> Resume(list, map,
                           Append(callers, [dep |-> dep, stage |-> 0, pending |-> <<>>]),
                           sel)]

\* The innermost frame, its first pending package taken.
Taken(frames) ==
  Append(SubSeq(frames, 1, Len(frames) - 1),
         [frames[Len(frames)] EXCEPT !.pending = Tail(@)])

\* The next invocation: of the first package pending in the innermost frame.
Invocation ==
  flattenDependencies(pkgs, pkgsMap, _dependencies[cur],
                      Head(stack[Len(stack)].pending), Taken(stack), selected)

(***************************************************************************)
(* printPackage and printScope: the targets of the generated file.         *)
(***************************************************************************)
\* ":<dir>__files"
FilesLabel(dir) == <<":">> \o Text(dir) \o FilesSuffix

\* ":<dir>"
Label(dir) == <<":">> \o Text(dir)

\* The srcs without the filter that drops the package itself.
PackageSrcsWithSelf(list, flattened, k) ==
  LET hoisted == SelectSeq(flattened, LAMBDA d : ~list[d]._isNested)
  IN  <<FilesLabel(list[k]._dir)>> \o
      [j \in 1..Len(hoisted) |-> FilesLabel(list[hoisted[j]]._dir)]

\* The srcs of the filegroup named after the package.
PackageSrcs(list, flattened, k) ==
  LET others == SelectSeq(flattened, LAMBDA d : d # k)
      hoisted == SelectSeq(others, LAMBDA d : ~list[d]._isNested)
  IN  <<FilesLabel(list[k]._dir)>> \o
      [j \in 1..Len(hoisted) |-> FilesLabel(list[hoisted[j]]._dir)]

\* The nodejs_binary targets of the package.
PackageBinaries(package) ==
  [j \in 1..Len(package._executables) |->
     [ name |-> Text(package._dir) \o <<Slash>> \o package._executables[j].name,
       entry_point |-> Text(package._dir) \o <<Slash>> \o package._executables[j].path,
       data |-> <<Label(package._dir)>> ]]

printPackage(list, flattened, k) ==
  [ name |-> Text(list[k]._dir),
    srcs |-> PackageSrcs(list, flattened, k),
    files |-> Text(list[k]._dir) \o FilesSuffix,
    binaries |-> PackageBinaries(list[k]) ]

\* The filter with startsWith(scope), the '/' left out.
ScopePkgsWithoutSlash(scope, list) ==
  SelectSeq([k \in 1..Len(list) |-> k],
            LAMBDA k : ~list[k]._isNested /\ StartsWith(Text(list[k]._dir), Text(scope)))

\* pkgs.filter(pkg => !pkg._isNested && pkg._dir.startsWith(`${scope}/`))
ScopePkgs(scope, list) ==
  SelectSeq([k \in 1..Len(list) |-> k],
            LAMBDA k : ~list[k]._isNested
                       /\ StartsWith(Text(list[k]._dir), Text(scope) \o <<Slash>>))

printScope(scope, list) ==
  LET scopePkgs == ScopePkgs(scope, list)
  IN  [ name |-> Text(scope),
        srcs |-> [j \in 1..Len(scopePkgs) |-> Label(list[scopePkgs[j]]._dir)] ]

\* What is in BUILD.bazel before the script runs.
PriorOutput ==
  [header |-> "prior content", packages |-> <<>>, scopes |-> <<>>, manual |-> FALSE]

\* The text main assembles: the header, a printPackage per package that is
\* not nested, a printScope per scope, and manual_build_file_contents when
\* that file can be read.
BuildFile(list, scopeList, deps, manual) ==
  LET roots == SelectSeq([k \in 1..Len(list) |-> k], LAMBDA k : ~list[k]._isNested)
  IN  [ header |-> "BUILD_FILE_HEADER",
        packages |-> [j \in 1..Len(roots) |-> printPackage(list, deps[roots[j]], roots[j])],
        scopes |-> [j \in 1..Len(scopeList) |-> printScope(scopeList[j], list)],
        manual |-> manual ]

(***************************************************************************)
(* main                                                                    *)
(***************************************************************************)
\* findPackages, findScopes, and the construction of pkgsMap
FindPackages ==
  /\ pc = "start"
  /\ \E list \in {findPackages(fs, <<NodeModules>>)} :
         /\ pkgs' = list
         /\ scopes' = findScopes(fs)
         /\ pkgsMap' = BuildPkgsMap(list)
         /\ _dependencies' = [k \in 1..Len(list) |-> <<>>]
         /\ IF list = <<>>
            THEN pc' = "generate" /\ cur' = 0 /\ stack' = <<>>
            ELSE pc' = "flatten" /\ cur' = 1 /\ stack' = <<ForEachFrame(1)>>
  /\ UNCHANGED <<fs, calls, selected, error, output>>

\* An invocation of flattenDependencies that returns, or reaches the next one.
FlattenDependencies ==
  /\ pc = "flatten"
  /\ \E r \in {Invocation} :
         /\ ~r.resumed.error.thrown
         /\ _dependencies' = [_dependencies EXCEPT ![cur] = r.flattened]
         /\ selected' = r.resumed.selected
         /\ IF r.resumed.stack # <<>>
            THEN pc' = pc /\ cur' = cur /\ stack' = r.resumed.stack /\ calls' = calls + 1
            ELSE IF cur < Len(pkgs)
            THEN pc' = pc /\ cur' = cur + 1 /\ stack' = <<ForEachFrame(cur + 1)>> /\ calls' = 0
            ELSE pc' = "generate" /\ cur' = cur /\ stack' = <<>> /\ calls' = calls + 1
  /\ UNCHANGED <<fs, pkgs, scopes, pkgsMap, error, output>>

\* An invocation of flattenDependencies in which a findDeps call throws:
\* nothing catches the Error and the process ends.
FlattenThrows ==
  /\ pc = "flatten"
  /\ \E r \in {Invocation} :
         /\ r.resumed.error.thrown
         /\ _dependencies' = [_dependencies EXCEPT ![cur] = r.flattened]
         /\ selected' = r.resumed.selected
         /\ stack' = r.resumed.stack
         /\ error' = r.resumed.error
  /\ pc' = "failed"
  /\ calls' = calls + 1
  /\ UNCHANGED <<fs, pkgs, scopes, pkgsMap, cur, output>>

\* The BUILD file is generated and written.
WriteBuildFile ==
  /\ pc = "generate"
  /\ \E manual \in BOOLEAN : output' = BuildFile(pkgs, scopes, _dependencies, manual)
  /\ pc' = "done"
  /\ UNCHANGED <<fs, pkgs, scopes, pkgsMap, _dependencies, cur, stack, calls, selected, error>>

Next ==
  \/ FindPackages
  \/ FlattenDependencies
  \/ FlattenThrows
  \/ WriteBuildFile

(***************************************************************************)
(* The install trees the script is run on.                                 *)
(***************************************************************************)
\* node_modules/<name>
Installed(name) == <<NodeModules>> \o name

\* <parent>/node_modules/<name>
NestedIn(parent, name) == parent \o <<NodeModules>> \o name

NoBin == [type |-> "undefined", path |-> <<>>, keys |-> <<>>, paths |-> <<>>]
BinString(path) == [type |-> "string", path |-> path, keys |-> <<>>, paths |-> <<>>]
BinObject(keys, paths) == [type |-> "object", path |-> <<>>, keys |-> keys, paths |-> paths]
BinArray == [type |-> "array", path |-> <<>>, keys |-> <<>>, paths |-> <<>>]

\* The name the package manager installed a directory under: what follows
\* the last node_modules/ of its path.
InstalledName(path) ==
  LET last == CHOOSE k \in 1..Len(path) :
                /\ path[k] = NodeModules
                /\ \A j \in (k + 1)..Len(path) : path[j] # NodeModules
  IN  SubSeq(path, last + 1, Len(path))

\* One key of one dependency mapping of the package.json of the at-th
\* directory of a tree: kind 1 dependencies, 2 peerDependencies,
\* 3 optionalDependencies.
Declarations(tree, names) == [at : 1..Len(tree), kind : 1..3, name : names]

\* No declaration occurs twice: a mapping holds a key once.
Distinct(declared) ==
  \A i, j \in 1..Len(declared) : i # j => declared[i] # declared[j]

DeclaredKeys(declared, at, kind) ==
  LET own == SelectSeq(declared, LAMBDA e : e.at = at /\ e.kind = kind)
  IN  [k \in 1..Len(own) |-> own[k].name]

PackageJsonOf(at, name, declared, bin) ==
  [ name |-> name,
    dependencies |-> DeclaredKeys(declared, at, 1),
    peerDependencies |-> DeclaredKeys(declared, at, 2),
    optionalDependencies |-> DeclaredKeys(declared, at, 3),
    bin |-> bin ]

\* The at-th directory of a tree
At(tree, p) == CHOOSE k \in 1..Len(tree) : tree[k] = p

A == <<"a">>
B == <<"b">>
C == <<"c">>
One == <<"1">>
ScopedA == <<"@s", "a">>
ScopedB == <<"@s", "b">>
OtherScopedA == <<"@sx", "a">>

\* left and right of the end-to-end example; "1" is not installed
TreePair == <<Installed(A), Installed(B)>>
\* b both hoisted to the root and nested under a
TreeShadow == <<Installed(A), Installed(B), NestedIn(Installed(A), B)>>
\* all hoisted, one of them with a numeric name
TreeFlat == <<Installed(A), Installed(B), Installed(One)>>
\* 1 nested at two depths under a, and not at the root
TreeDeep ==
  << Installed(A), NestedIn(Installed(A), One), NestedIn(Installed(A), B),
     NestedIn(NestedIn(Installed(A), B), One) >>

Trees == {TreePair, TreeShadow, TreeFlat, TreeDeep}
DepNames == {A, B, One}

\* The tree with the directories of t, whose package.json files declare
\* the dependencies `declared`, in that order, and no bin.
InstallTree(t, declared) ==
  [p \in Range(t) |-> PackageJsonOf(At(t, p), InstalledName(p), declared, NoBin)]

\* The state main starts in.
Start ==
  /\ pc = "start"
  /\ pkgs = <<>>
  /\ scopes = <<>>
  /\ pkgsMap = <<>>
  /\ _dependencies = <<>>
  /\ cur = 0
  /\ stack = <<>>
  /\ calls = 0
  /\ selected = {}
  /\ error = NoError
  /\ output = PriorOutput

\* Any of the trees, with at most MaxDeps declared dependencies in all.
Init ==
  /\ \E t \in Trees : \E n \in 0..MaxDeps :
       \E declared \in [1..n -> Declarations(t, DepNames)] :
         /\ Distinct(declared)
         /\ fs = InstallTree(t, declared)
  /\ Start

Spec == Init /\ [][Next]_vars

(***************************************************************************)
(* Install trees with scopes, bin fields of every form, and declared names *)
(* that differ from the directory: the specification SpecEmit.             *)
(***************************************************************************)
\* roots @s/a, @s/b and c of the scope example
TreeScoped == <<Installed(ScopedA), Installed(ScopedB), Installed(C)>>
\* two scopes, the name of one a prefix of the other's, and a nested copy
\* under a scoped package; c is not installed
TreeScopes ==
  <<Installed(ScopedA), NestedIn(Installed(ScopedA), B), Installed(OtherScopedA)>>

EmitTrees == {TreeScoped, TreeScopes}
EmitDepNames == {C}

\* a name declared in package.json that is not the directory's
Alias == <<"z">>

DotSlashC == <<".", Slash, "c">>
BackslashC == <<"b", "\\", "c">>

\* What a package.json holds besides its dependencies: whether its name is
\* the alias, and its bin field.
Shapes ==
  { [alias |-> FALSE, bin |-> NoBin],
    [alias |-> FALSE, bin |-> BinString(DotSlashC)],
    [alias |-> TRUE, bin |-> BinString(DotSlashC)],
    [alias |-> FALSE, bin |-> BinString(BackslashC)],
    [alias |-> FALSE, bin |-> BinObject(<<C, One>>, <<DotSlashC, BackslashC>>)],
    [alias |-> FALSE, bin |-> BinArray] }

InstallTreeEmit(t, declared, shape) ==
  [p \in Range(t) |->
     PackageJsonOf(At(t, p),
                   IF shape[At(t, p)].alias THEN Alias ELSE InstalledName(p),
                   declared, shape[At(t, p)].bin)]

InitEmit ==
  /\ \E t \in EmitTrees : \E n \in 0..MaxEmitDeps :
       \E declared \in [1..n -> Declarations(t, EmitDepNames)] :
         \E shape \in [1..Len(t) -> Shapes] :
           /\ Distinct(declared)
           /\ fs = InstallTreeEmit(t, declared, shape)
  /\ Start

SpecEmit == InitEmit /\ [][Next]_vars

(***************************************************************************)
(* What the properties speak of: the index, the nearest-ancestor rule and  *)
(* the dependency graph, defined from the package list alone.              *)
(***************************************************************************)
Indices == 1..Len(pkgs)

Dirs == {pkgs[k]._dir : k \in Indices}

IndexOf(dir) == CHOOSE k \in Indices : pkgs[k]._dir = dir

\* The prefixes p of d, by length, for which <p>/node_modules/<X> is in the index.
Shadowing(d, X) ==
  {n \in 1..Len(d) : SubSeq(d, 1, n) \o <<NodeModules>> \o X \in Dirs}

\* The record the nearest-ancestor rule selects for the name X declared by
\* the record with directory d; 0 when X is found nowhere.
Nearest(d, X) ==
  IF Shadowing(d, X) # {}
  THEN LET n == CHOOSE n \in Shadowing(d, X) : \A m \in Shadowing(d, X) : m <= n
       IN  IndexOf(SubSeq(d, 1, n) \o <<NodeModules>> \o X)
  ELSE IF X \in Dirs THEN IndexOf(X)
  ELSE 0

RequiredNames(k) == Range(pkgs[k].dependencies) \cup Range(pkgs[k].peerDependencies)

DeclaredNames(k) == RequiredNames(k) \cup Range(pkgs[k].optionalDependencies)

\* The resolved dependency edges that leave the record k.
Targets(k) == {Nearest(pkgs[k]._dir, X) : X \in DeclaredNames(k)} \ {0}

RECURSIVE Grow(_)
Grow(S) ==
  LET next == S \cup UNION {Targets(j) : j \in S}
  IN  IF next = S THEN S ELSE Grow(next)

\* k and every record reachable from k
Closure(k) == Grow({k})

\* No package of the index declares a required dependency that is found nowhere.
NoUnresolvable ==
  \A k \in Indices : \A X \in RequiredNames(k) : Nearest(pkgs[k]._dir, X) # 0

\* main has run flattenDependencies for every package.
Flattened == pc \in {"generate", "done"}

Occurrences(seq, e) == Cardinality({i \in 1..Len(seq) : seq[i] = e})

Nested(k) == pkgs[k]._isNested

(***************************************************************************)
(* C1: when no required dependency of the index is unresolvable, once main *)
(* has flattened every package, the _dependencies of each package holds    *)
(* exactly the package and the records reachable from it over resolved     *)
(* dependency edges, and no directory twice.                               *)
(***************************************************************************)
C1_TransitiveClosure ==
  (Flattened /\ NoUnresolvable) =>
    \A k \in Indices :
      /\ Range(_dependencies[k]) = Closure(k)
      /\ \A i, j \in 1..Len(_dependencies[k]) :
           i # j => pkgs[_dependencies[k][i]]._dir # pkgs[_dependencies[k][j]]._dir

\* A finished run in which some closure holds three records, one of them nested.
C1_Reached ==
  /\ pc = "done"
  /\ NoUnresolvable
  /\ \E k \in Indices :
       /\ Len(_dependencies[k]) >= 3
       /\ \E n \in Range(_dependencies[k]) : Nested(n)

(***************************************************************************)
(* C2: every lookup of a name X declared by a record with directory d      *)
(* returns the record at <p>/node_modules/X for the longest prefix p of d  *)
(* that has one in the index, and the root-level X only when no prefix     *)
(* has; a root-level X is never returned while a copy nested under d or an *)
(* ancestor of d exists.                                                   *)
(***************************************************************************)
C2_NearestAncestor ==
  \A e \in selected :
    /\ e.to = Nearest(pkgs[e.from]._dir, e.targetDep)
    /\ (Shadowing(pkgs[e.from]._dir, e.targetDep) # {} /\ e.targetDep \in Dirs)
         => /\ e.to # 0
            /\ pkgs[e.to]._dir # e.targetDep
            /\ Nested(e.to)

\* A lookup returned a nested copy although the root holds a package of that name.
C2_Reached ==
  \E e \in selected :
    /\ e.to # 0
    /\ Nested(e.to)
    /\ e.targetDep \in Dirs
    /\ Shadowing(pkgs[e.from]._dir, e.targetDep) # {}

(***************************************************************************)
(* C3: a run fails only with an Error that names a dependency X and the    *)
(* directory of a record reached that declares X in dependencies or        *)
(* peerDependencies, X being found neither by the nearest-ancestor lookup  *)
(* nor at the root; a run that flattened every package met no such name;   *)
(* a name that is missing and was looked up as optional raised no Error    *)
(* and put nothing into any _dependencies.                                 *)
(***************************************************************************)
C3_RequiredVersusOptional ==
  /\ pc = "failed" =>
       /\ error.thrown
       /\ \E k \in Range(_dependencies[cur]) :
            /\ pkgs[k]._dir = error.of
            /\ error.targetDep \in RequiredNames(k)
            /\ Nearest(pkgs[k]._dir, error.targetDep) = 0
  /\ pc # "failed" => ~error.thrown
  /\ Flattened => NoUnresolvable
  /\ \A e \in selected :
       e.to = 0 => /\ e.targetDep \in Range(pkgs[e.from].optionalDependencies)
                   /\ Nearest(pkgs[e.from]._dir, e.targetDep) = 0
  /\ \A k \in Indices : \A d \in Range(_dependencies[k]) : d \in Indices

\* A run that skipped a missing optional dependency without an Error and
\* later failed on a missing required one.
C3_Reached ==
  /\ pc = "failed"
  /\ error.thrown
  /\ \E e \in selected : e.to = 0

(***************************************************************************)
(* C4: flattening terminates on graphs with cycles.  The number of         *)
(* invocations made for a package never exceeds one plus the number of     *)
(* dependency keys of the records flattened, no list grows beyond the      *)
(* index, an unfinished flattening always has a next invocation to make,   *)
(* a run fails only when a required dependency is unresolvable, and once   *)
(* every package is flattened each record on a cycle occurs exactly once   *)
(* in the list of every record on that cycle.                              *)
(***************************************************************************)
NumKeys(k) ==
  Len(pkgs[k].dependencies) + Len(pkgs[k].peerDependencies)
    + Len(pkgs[k].optionalDependencies)

RECURSIVE SumKeys(_)
SumKeys(S) ==
  IF S = {} THEN 0
  ELSE LET k == CHOOSE k \in S : TRUE IN NumKeys(k) + SumKeys(S \ {k})

\* a and b lie on a common cycle of resolved dependency edges
OnCycle(a, b) ==
  /\ a \in Closure(b)
  /\ b \in Closure(a)
  /\ a # b \/ a \in UNION {Targets(j) : j \in Closure(a)}

C4_CycleTermination ==
  /\ cur \in Indices => calls <= 1 + SumKeys(Range(_dependencies[cur]))
  /\ \A k \in Indices : Len(_dependencies[k]) <= Len(pkgs)
  /\ Len(stack) <= Len(pkgs) + 1
  /\ pc = "flatten" => stack # <<>> /\ stack[Len(stack)].pending # <<>>
  /\ pc = "failed" => ~NoUnresolvable
  /\ Flattened =>
       \A a, b \in Indices :
         OnCycle(a, b) => Occurrences(_dependencies[a], b) = 1

\* A finished run over a graph in which two different records depend on each other.
C4_Reached ==
  /\ pc = "done"
  /\ \E a, b \in Indices :
       /\ a # b
       /\ b \in Targets(a)
       /\ a \in Targets(b)
       /\ Occurrences(_dependencies[a], b) = 1
       /\ Occurrences(_dependencies[b], a) = 1

(***************************************************************************)
(* C5: BUILD.bazel differs from what it was before the run only when the   *)
(* flattening of every package of the index, nested ones included, has     *)
(* completed without an Error; in a run whose index holds an unresolvable  *)
(* required dependency, and in any failed run, the file is what it was.    *)
(***************************************************************************)
C5_AllOrNothing ==
  /\ output # PriorOutput =>
       /\ pc = "done"
       /\ ~error.thrown
       /\ \A k \in Indices : Range(_dependencies[k]) = Closure(k)
  /\ (pkgs # <<>> /\ ~NoUnresolvable) => output = PriorOutput
  /\ pc = "failed" => output = PriorOutput
  /\ pc = "done" => output # PriorOutput

\* A run that failed after it had flattened some packages completely.
C5_Reached ==
  /\ pc = "failed"
  /\ cur > 1
  /\ ~NoUnresolvable
  /\ \E k \in 1..(cur - 1) : Len(_dependencies[k]) >= 2
  /\ output = PriorOutput

(***************************************************************************)
(* C6: in the written file, the filegroup of every package that is not     *)
(* nested has as srcs its own files target, then the files target of each  *)
(* record of its _dependencies that is neither the package nor nested, in  *)
(* the order of _dependencies: the own target occurs once and no nested    *)
(* record's target occurs.                                                 *)
(***************************************************************************)
\* The position in the _dependencies of k of the record whose files target is `label`.
PositionOf(k, label) ==
  CHOOSE i \in 1..Len(_dependencies[k]) :
    FilesLabel(pkgs[_dependencies[k][i]]._dir) = label

SrcsAsClaimed(k, srcs) ==
  /\ srcs # <<>>
  /\ srcs[1] = FilesLabel(pkgs[k]._dir)
  /\ \A i \in 2..Len(srcs) : srcs[i] # FilesLabel(pkgs[k]._dir)
  /\ \A n \in Indices : Nested(n) => FilesLabel(pkgs[n]._dir) \notin Range(srcs)
  /\ {srcs[i] : i \in 2..Len(srcs)} =
       {FilesLabel(pkgs[d]._dir) : d \in {d \in Range(_dependencies[k]) : d # k /\ ~Nested(d)}}
  /\ \A i, j \in 2..Len(srcs) : i < j => PositionOf(k, srcs[i]) < PositionOf(k, srcs[j])

C6_AggregateInputs ==
  pc = "done" =>
    /\ Len(output.packages) = Cardinality({k \in Indices : ~Nested(k)})
    /\ \A k \in Indices :
         ~Nested(k) =>
           \E j \in 1..Len(output.packages) :
             /\ output.packages[j].name = Text(pkgs[k]._dir)
             /\ SrcsAsClaimed(k, output.packages[j].srcs)

\* A written file with a filegroup of two srcs for a package whose
\* _dependencies holds itself, a nested record and another package.
C6_Reached ==
  /\ pc = "done"
  /\ \E j \in 1..Len(output.packages) :
       \E k \in Indices :
         /\ ~Nested(k)
         /\ output.packages[j].name = Text(pkgs[k]._dir)
         /\ Len(output.packages[j].srcs) = 2
         /\ Len(_dependencies[k]) = 3
         /\ k \in Range(_dependencies[k])

(***************************************************************************)
(* C7: a package that is not nested and whose bin field is a string has    *)
(* one executable, keyed by the name its package.json declares and valued  *)
(* by the cleaned path, and in the written file its nodejs_binary is named *)
(* <dir>/<declared name>.                                                  *)
(***************************************************************************)
C7_StringBinNamedAfterPackage ==
  \A k \in Indices :
    (~Nested(k) /\ pkgs[k].bin.type = "string") =>
      /\ Len(pkgs[k]._executables) = 1
      /\ pkgs[k]._executables[1].name = Text(pkgs[k].name)
      /\ pkgs[k]._executables[1].path = cleanupBinPath(pkgs[k].bin.path)
      /\ pc = "done" =>
           \E j \in 1..Len(output.packages) :
             /\ output.packages[j].name = Text(pkgs[k]._dir)
             /\ Len(output.packages[j].binaries) = 1
             /\ output.packages[j].binaries[1].name =
                  Text(pkgs[k]._dir) \o <<Slash>> \o Text(pkgs[k].name)

(***************************************************************************)
(* C8: in the written file, the filegroup of every scope at the root of    *)
(* node_modules lists the targets of exactly the packages that are not     *)
(* nested and lie in the scope's directory, in the order of the package    *)
(* list: no nested record, no package of another scope, no unscoped        *)
(* package.                                                                *)
(***************************************************************************)
\* The package k lies in the directory of the scope: its first segment is
\* the scope's name and more follows.
InScope(scope, k) ==
  /\ Len(pkgs[k]._dir) > Len(scope)
  /\ SubSeq(pkgs[k]._dir, 1, Len(scope)) = scope

ScopeMembers(scope) == {k \in Indices : ~Nested(k) /\ InScope(scope, k)}

C8_ScopeGrouping ==
  pc = "done" =>
    /\ Len(output.scopes) = Len(scopes)
    /\ \A s \in {<<pkgs[k]._dir[1]>> : k \in {i \in Indices : ~Nested(i) /\ Len(pkgs[i]._dir) > 1}} :
         \E j \in 1..Len(scopes) : scopes[j] = s
    /\ \A j \in 1..Len(scopes) :
         LET srcs == output.scopes[j].srcs
         IN  /\ output.scopes[j].name = Text(scopes[j])
             /\ Len(srcs) = Cardinality(ScopeMembers(scopes[j]))
             /\ Range(srcs) = {Label(pkgs[k]._dir) : k \in ScopeMembers(scopes[j])}
             /\ \A k \in Indices :
                  (Nested(k) \/ Len(pkgs[k]._dir) = 1 \/ pkgs[k]._dir[1] # scopes[j][1])
                    => Label(pkgs[k]._dir) \notin Range(srcs)
             /\ \A a, b \in 1..Len(srcs) :
                  a < b => \E x, y \in ScopeMembers(scopes[j]) :
                             /\ x < y
                             /\ srcs[a] = Label(pkgs[x]._dir)
                             /\ srcs[b] = Label(pkgs[y]._dir)

\* A written file for a tree with two scopes, the name of one a prefix of
\* the other's, and a nested record under a package of the shorter one.
C8_Reached ==
  /\ pc = "done"
  /\ \E i, j \in 1..Len(scopes) :
       /\ i # j
       /\ StartsWith(Text(scopes[j]), Text(scopes[i]))
       /\ Len(output.scopes[i].srcs) = 1
       /\ \E n \in Indices : Nested(n) /\ InScope(scopes[i], n)

(***************************************************************************)
(* C9: the _dependencies of each package is a function of the package list *)
(* alone: the depth-first pre-order from the package that visits, at each  *)
(* record, the resolved targets of dependencies, then of peerDependencies, *)
(* then of optionalDependencies, skipping records already in the sequence. *)
(* Within a mapping the keys are taken in the order Object.keys enumerates *)
(* them (canonical array-index names ascending, then the others as         *)
(* declared); C9_DeclaredKeyOrder is the statement with declared key order.*)
(***************************************************************************)
KeysIn(keys, order) == IF order = "declared" THEN keys ELSE ObjectKeys(keys)

\* The resolved targets of the record k, in visiting order.
Visited(k, order) ==
  LET keys == KeysIn(pkgs[k].dependencies, order)
                \o KeysIn(pkgs[k].peerDependencies, order)
                \o KeysIn(pkgs[k].optionalDependencies, order)
      targets == [i \in 1..Len(keys) |-> Nearest(pkgs[k]._dir, keys[i])]
  IN  SelectSeq(targets, LAMBDA d : d # 0)

RECURSIVE PreOrder(_, _, _), PreOrderAll(_, _, _)
PreOrder(seq, k, order) ==
  IF k \in Range(seq) THEN seq
  ELSE PreOrderAll(Append(seq, k), Visited(k, order), order)

PreOrderAll(seq, targets, order) ==
  IF targets = <<>> THEN seq
  ELSE PreOrderAll(PreOrder(seq, Head(targets), order), Tail(targets), order)

C9_EnumerationOrder ==
  (Flattened /\ NoUnresolvable) =>
    \A k \in Indices : _dependencies[k] = PreOrder(<<>>, k, "enumerated")

C9_DeclaredKeyOrder ==
  (Flattened /\ NoUnresolvable) =>
    \A k \in Indices : _dependencies[k] = PreOrder(<<>>, k, "declared")

\* A finished run in which a package declares, in one mapping, a numeric
\* name after another name, both resolved to different records.
C9_Reached ==
  /\ pc = "done"
  /\ NoUnresolvable
  /\ \E k \in Indices :
       /\ ObjectKeys(pkgs[k].dependencies) # pkgs[k].dependencies
       /\ Len(_dependencies[k]) >= 3

(***************************************************************************)
(* C10: whenever the _dependencies of a package that is not nested holds a *)
(* nested record n, the root-level package in whose directory n lives is   *)
(* the package itself or is in that _dependencies too; in the written file *)
(* the filegroup of the package lists that owner's files target.           *)
(***************************************************************************)
\* r is the root-level package inside whose directory n lives
Owns(r, n) ==
  /\ ~Nested(r)
  /\ StartsWith(Text(pkgs[n]._dir), Text(pkgs[r]._dir) \o <<Slash>>)

C10_NestedCoveredByOwner ==
  \A k \in Indices :
    ~Nested(k) =>
      \A n \in Range(_dependencies[k]) :
        Nested(n) =>
          \E r \in Range(_dependencies[k]) \cup {k} :
            /\ Owns(r, n)
            /\ pc = "done" =>
                 \E j \in 1..Len(output.packages) :
                   /\ output.packages[j].name = Text(pkgs[k]._dir)
                   /\ FilesLabel(pkgs[r]._dir) \in Range(output.packages[j].srcs)

\* A written file for a package whose _dependencies holds a nested record
\* owned by another package.
C10_Reached ==
  /\ pc = "done"
  /\ \E k \in Indices :
       /\ ~Nested(k)
       /\ \E n \in Range(_dependencies[k]) :
            /\ Nested(n)
            /\ ~Owns(k, n)

====
